---------------------------- MODULE Spec2Model ----------------------------
(***************************************************************************)
(* Local Food Wastage Management System (src/app.py).                      *)
(*                                                                         *)
(* The program is a Streamlit page over one SQLite file.  Its state is the *)
(* four tables of that file, the connections the code has opened and not   *)
(* closed, and what the page shows after the last interaction.  Every      *)
(* button press is one action: it runs the whole branch of main() for the  *)
(* chosen menu entry.                                                      *)
(*                                                                         *)
(* Values.  A nullable SQL integer is a record [null, val].  A dataframe   *)
(* is a sequence of rows (records named after the SELECT's columns).  A    *)
(* result whose order SQL leaves to the engine (no ORDER BY, or equal sort *)
(* keys) is a nondeterministic choice among the orders allowed.            *)
(* Percentages are integers counting hundredths of a percent, so that      *)
(* ROUND(x, 2) is a computation on integers.                               *)
(***************************************************************************)
EXTENDS Integers, Sequences, FiniteSets

VARIABLES
    schemaOk,       \* the file DB_NAME holds the four tables (it is not created by the app)
    food_listings,  \* table food_listings: a set of rows, food_id unique
    claims,         \* table claims
    providers,      \* table providers
    receivers,      \* table receivers
    openConns,      \* connections opened by get_connection() and not closed by the code
    last,           \* the interaction just performed and its outcome
    banner,         \* the st.success banner on the page ("none" when there is none)
    shown,          \* the dataframe on the page (<<>> when there is none)
    hist            \* history: how the interaction relates to the one before it

vars == <<schemaOk, food_listings, claims, providers, receivers,
          openConns, last, banner, shown, hist>>

tables == <<food_listings, claims, providers, receivers>>

----------------------------------------------------------------------------
(* Bounds of the model *)

MaxFoodId == 2
MaxQty == 2
MaxOpen == 2
MaxPctClaims == 4
MaxCityId == 2
MaxCityRows == 2

(* Program constants: the min_value of the number inputs *)

MinQuantity == 1
MinFoodId == 1

FoodIds == MinFoodId..MaxFoodId
Quantities == MinQuantity..MaxQty

----------------------------------------------------------------------------
(* Nullable integers *)

NULL == [null |-> TRUE, val |-> 0]
Some(n) == [null |-> FALSE, val |-> n]

----------------------------------------------------------------------------
(* The enumerations of the form and of the claims table *)

FoodTypes == {"Vegetarian", "Non-Vegetarian", "Vegan"}
MealTypes == {"Breakfast", "Lunch", "Dinner", "Snacks"}
Statuses == {"Completed", "Pending", "Cancelled"}

(* The fillings of the Add form other than the quantity *)
ListingForms ==
    { [food_name |-> "Rice", expiry_date |-> "2025-01-01", provider_id |-> 1,
       provider_type |-> "Restaurant", location |-> "Downtown",
       food_type |-> "Vegetarian", meal_type |-> "Lunch"],
      [food_name |-> "Bread", expiry_date |-> "2025-01-02", provider_id |-> 2,
       provider_type |-> "Grocery", location |-> "Uptown",
       food_type |-> "Vegan", meal_type |-> "Breakfast"] }

(* The tables the app only reads, as found in the file when it starts.     *)
(* The claims table holds the first claims of ClaimPool, any number of     *)
(* them.                                                                   *)
ProvidersSeed ==
    { [provider_id |-> 1, name |-> "Fresh Foods", provider_type |-> "Restaurant",
       city |-> "Downtown", contact |-> "555-0001"],
      [provider_id |-> 2, name |-> "Food Bank", provider_type |-> "Grocery",
       city |-> "Uptown", contact |-> "555-0002"] }

ReceiversSeed ==
    { [receiver_id |-> 1, name |-> "Shelter", city |-> "Downtown"],
      [receiver_id |-> 2, name |-> "Kitchen", city |-> "Midtown"] }

ClaimPool ==
    { [claim_id |-> 1, food_id |-> 1, receiver_id |-> 1, status |-> "Completed"],
      [claim_id |-> 2, food_id |-> 2, receiver_id |-> 2, status |-> "Completed"],
      [claim_id |-> 3, food_id |-> 1, receiver_id |-> 1, status |-> "Pending"],
      [claim_id |-> 4, food_id |-> 1, receiver_id |-> 2, status |-> "Completed"] }

----------------------------------------------------------------------------
(* Sequences of rows *)

Perms(S) ==
    { f \in [1..Cardinality(S) -> S] :
        \A i, j \in 1..Cardinality(S) : i # j => f[i] # f[j] }

(* GROUP BY with no ORDER BY: the engine chooses the order of the rows *)
AnyOrder(rows) == Perms(rows)

----------------------------------------------------------------------------
(* The three statements on food_listings *)

InsertRow(fl, id, form, q) ==
    fl \cup { [food_id |-> id, food_name |-> form.food_name, quantity |-> q,
               expiry_date |-> form.expiry_date, provider_id |-> form.provider_id,
               provider_type |-> form.provider_type, location |-> form.location,
               food_type |-> form.food_type, meal_type |-> form.meal_type] }

(* Mutants of UpdateQuantity: an upsert; an increment; a missing WHERE *)
UpdateQuantityUpsert(fl, id, q) ==
    IF \E r \in fl : r.food_id = id
    THEN { IF r.food_id = id THEN [r EXCEPT !.quantity = q] ELSE r : r \in fl }
    ELSE fl \cup { [food_id |-> id, food_name |-> "", quantity |-> q,
                    expiry_date |-> "", provider_id |-> 1, provider_type |-> "",
                    location |-> "", food_type |-> "Vegetarian",
                    meal_type |-> "Breakfast"] }

UpdateQuantityIncrement(fl, id, q) ==
    { IF r.food_id = id THEN [r EXCEPT !.quantity = r.quantity + q] ELSE r : r \in fl }

UpdateQuantityNoWhere(fl, id, q) ==
    { [r EXCEPT !.quantity = q] : r \in fl }

UpdateQuantity(fl, id, q) ==
    { IF r.food_id = id THEN [r EXCEPT !.quantity = q] ELSE r : r \in fl }

(* Mutant of DeleteRow: a listing that a claim refers to is kept *)
DeleteRowUnlessClaimed(fl, id) ==
    IF \E c \in claims : c.food_id = id THEN fl ELSE { r \in fl : r.food_id # id }

DeleteRow(fl, id) == { r \in fl : r.food_id # id }

(* cursor.rowcount of an UPDATE or DELETE ... WHERE food_id = id *)
RowsMatching(fl, id) == Cardinality({ r \in fl : r.food_id = id })

(* The INSERT names no food_id: the engine assigns one no row has *)
FreshFoodIds(fl) == FoodIds \ { r.food_id : r \in fl }


----------------------------------------------------------------------------
(* Aggregates and clauses of the catalog's SELECTs *)

RECURSIVE SumQuantity(_)
SumQuantity(rows) ==
    IF rows = {} THEN 0
    ELSE LET r == CHOOSE x \in rows : TRUE
         IN  r.quantity + SumQuantity(rows \ {r})

(* SUM(quantity): NULL over no rows *)
SumOrNull(rows) == IF rows = {} THEN NULL ELSE Some(SumQuantity(rows))

(* ORDER BY key DESC: rows of equal key come in an order the engine chooses *)
OrderByDesc(rows, col) ==
    { s \in Perms(rows) :
        \A i \in 1..(Cardinality(rows) - 1) : s[i][col] >= s[i + 1][col] }

(* Mutant of Limit1: the last row instead of the first *)
Limit1Last(dfs) == { IF Len(s) = 0 THEN << >> ELSE << s[Len(s)] >> : s \in dfs }

(* LIMIT 1 *)
Limit1(dfs) == { IF Len(s) = 0 THEN << >> ELSE << s[1] >> : s \in dfs }

(* Mutant of Percentage: the count times 100 / total as an integer division *)
PercentageIntegerDivision(n, d) == ((n * 100) \div d) * 100

(* ROUND(n * 100.0 / d, 2), in hundredths of a percent; a half rounds up *)
Percentage(n, d) == (2 * (n * 100) * 100 + d) \div (2 * d)

(* The joins: a joined row is the tuple of the rows it is made of *)
ClaimsJoinReceivers(cl, rc) ==
    { <<c, r>> \in cl \X rc : c.receiver_id = r.receiver_id }

ClaimsJoinListings(cl, fl) ==
    { <<c, f>> \in cl \X fl : c.food_id = f.food_id }

ClaimsJoinListingsJoinProviders(cl, fl, pr) ==
    { <<c, f, p>> \in cl \X fl \X pr :
        c.food_id = f.food_id /\ f.provider_id = p.provider_id }

----------------------------------------------------------------------------
(* The catalog QUERIES: each entry is the set of dataframes the engine may *)
(* return for it.                                                          *)

(* Mutant of Combined: the missing identifier is 0, not NULL *)
CombinedNullAsZero(pr, rc) ==
    { [city |-> p.city, provider_id |-> Some(p.provider_id), receiver_id |-> Some(0)]
        : p \in pr }
    \cup
    { [city |-> r.city, provider_id |-> Some(0), receiver_id |-> Some(r.receiver_id)]
        : r \in rc }

(* The subquery "combined": providers UNION ALL receivers.  Equal rows of  *)
(* the union are kept once here, which COUNT(DISTINCT ...) cannot tell.    *)
Combined(pr, rc) ==
    { [city |-> p.city, provider_id |-> Some(p.provider_id), receiver_id |-> NULL]
        : p \in pr }
    \cup
    { [city |-> r.city, provider_id |-> NULL, receiver_id |-> Some(r.receiver_id)]
        : r \in rc }

(* COUNT(DISTINCT col): the distinct values that are not NULL *)
CountDistinct(vals) == Cardinality({ v.val : v \in { w \in vals : ~w.null } })

ProvidersReceiversPerCity(pr, rc) ==
    LET combined == Combined(pr, rc)
        group(c) == { x \in combined : x.city = c }
    IN  AnyOrder({ [city |-> c,
                    total_providers |-> CountDistinct({ x.provider_id : x \in group(c) }),
                    total_receivers |-> CountDistinct({ x.receiver_id : x \in group(c) })]
                   : c \in { x.city : x \in combined } })

ProviderTypeContributingMost(fl) ==
    Limit1(OrderByDesc(
        { [provider_type |-> t,
           total_quantity |-> SumQuantity({ r \in fl : r.provider_type = t })]
          : t \in { r.provider_type : r \in fl } },
        "total_quantity"))

ReceiversWithMostClaims(cl, rc) ==
    LET j == ClaimsJoinReceivers(cl, rc)
    IN  OrderByDesc(
            { [name |-> n,
               total_claims |-> Cardinality({ x \in j : x[2].name = n })]
              : n \in { x[2].name : x \in j } },
            "total_claims")

TotalQuantityAvailable(fl) ==
    { << [total_available_food |-> SumOrNull(fl)] >> }

CityWithHighestListings(fl) ==
    Limit1(OrderByDesc(
        { [location |-> l,
           total_listings |-> Cardinality({ r \in fl : r.location = l })]
          : l \in { r.location : r \in fl } },
        "total_listings"))

MostCommonFoodTypes(fl) ==
    OrderByDesc(
        { [food_type |-> t,
           count |-> Cardinality({ r \in fl : r.food_type = t })]
          : t \in { r.food_type : r \in fl } },
        "count")

ClaimsPerFoodItem(cl) ==
    AnyOrder({ [food_id |-> f,
                total_claims |-> Cardinality({ c \in cl : c.food_id = f })]
               : f \in { c.food_id : c \in cl } })

ProviderWithMostCompletedClaims(cl, fl, pr) ==
    LET j == { x \in ClaimsJoinListingsJoinProviders(cl, fl, pr) :
                 x[1].status = "Completed" }
    IN  Limit1(OrderByDesc(
            { [name |-> n,
               completed_claims |-> Cardinality({ x \in j : x[3].name = n })]
              : n \in { x[3].name : x \in j } },
            "completed_claims"))

ClaimPercentages(cl) ==
    AnyOrder({ [status |-> s,
                percentage |-> Percentage(Cardinality({ c \in cl : c.status = s }),
                                          Cardinality(cl))]
               : s \in { c.status : c \in cl } })

MostClaimedMealType(cl, fl) ==
    LET j == ClaimsJoinListings(cl, fl)
    IN  Limit1(OrderByDesc(
            { [meal_type |-> m,
               total_claims |-> Cardinality({ x \in j : x[2].meal_type = m })]
              : m \in { x[2].meal_type : x \in j } },
            "total_claims"))

(* The labels of the catalog that the properties below are about *)
QPerCity == "Providers & Receivers per City"
QProviderType == "Provider type contributing most food"
QReceivers == "Receivers with most food claims"
QTotal == "Total quantity of food available"
QCity == "City with highest number of food listings"
QFoodTypes == "Most commonly available food types"
QClaimsPerItem == "Number of claims made for each food item"
QProvider == "Provider with highest number of successful food claims"
QPercentage == "Percentage of food claims completed vs pending vs canceled"
QMealType == "Most claimed meal type"

QueryLabels ==
    { QPerCity, QProviderType, QReceivers, QTotal, QCity, QFoodTypes,
      QClaimsPerItem, QProvider, QPercentage, QMealType }

QUERIES(label, fl, cl, pr, rc) ==
    CASE label = QPerCity       -> ProvidersReceiversPerCity(pr, rc)
      [] label = QProviderType  -> ProviderTypeContributingMost(fl)
      [] label = QReceivers     -> ReceiversWithMostClaims(cl, rc)
      [] label = QTotal         -> TotalQuantityAvailable(fl)
      [] label = QCity          -> CityWithHighestListings(fl)
      [] label = QFoodTypes     -> MostCommonFoodTypes(fl)
      [] label = QClaimsPerItem -> ClaimsPerFoodItem(cl)
      [] label = QProvider      -> ProviderWithMostCompletedClaims(cl, fl, pr)
      [] label = QPercentage    -> ClaimPercentages(cl)
      [] label = QMealType      -> MostClaimedMealType(cl, fl)

----------------------------------------------------------------------------
(* The data access layer *)

get_connection(n) == n + 1
close(n) == n - 1

(* The statement raises when the file holds no tables: sqlite3.connect     *)
(* creates an empty file when DB_NAME is missing.                          *)
Raises == ~schemaOk

(* run_query: on the raising path conn.close() is not reached *)
run_query(label) ==
    IF Raises
    THEN /\ openConns' = get_connection(openConns)
         /\ shown' = << >>
    ELSE /\ openConns' = close(get_connection(openConns))
         /\ \E df \in QUERIES(label, food_listings, claims, providers, receivers) :
                shown' = df

(* execute_sql: on the raising path neither commit() nor close() is reached *)
execute_sql(newListings) ==
    IF Raises
    THEN /\ openConns' = get_connection(openConns)
         /\ food_listings' = food_listings
    ELSE /\ openConns' = close(get_connection(openConns))
         /\ food_listings' = newListings

add_food_listing(id, form, q) ==
    execute_sql(InsertRow(food_listings, id, form, q))

update_food_listing_quantity(id, q) ==
    execute_sql(UpdateQuantity(food_listings, id, q))

delete_food_listing(id) ==
    execute_sql(DeleteRow(food_listings, id))

----------------------------------------------------------------------------
(* The page: one action per menu entry and button *)

NoInteraction ==
    [op |-> "none", query |-> "", food_id |-> 0, quantity |-> 0,
     affected |-> 0, raised |-> FALSE]

Request(l) == <<l.op, l.query, l.food_id, l.quantity>>

(* "repeat": the same request as the one before it; "after_delete": an     *)
(* update of the food_id the interaction before it deleted.                *)
Relation(new) ==
    IF Request(new) = Request(last) THEN "repeat"
    ELSE IF /\ last.op = "delete" /\ ~last.raised
            /\ new.op = "update" /\ new.food_id = last.food_id
         THEN "after_delete"
         ELSE "fresh"

AddedBanner == "Food listing added successfully!"
UpdatedBanner == "Food listing quantity updated successfully!"
DeletedBanner == "Food listing deleted successfully!"

(* st.success(...) is reached only when the call before it returned *)
SuccessBanner(text) == IF Raises THEN "none" ELSE text

ViewAnalytics(label) ==
    /\ openConns < MaxOpen
    /\ run_query(label)
    /\ last' = [op |-> "view", query |-> label, food_id |-> 0, quantity |-> 0,
                affected |-> 0, raised |-> Raises]
    /\ banner' = "none"
    /\ hist' = Relation(last')
    /\ UNCHANGED <<schemaOk, food_listings, claims, providers, receivers>>

AddFoodListing(form, q) ==
    /\ openConns < MaxOpen
    /\ \E id \in IF Raises THEN {0} ELSE FreshFoodIds(food_listings) :
          /\ add_food_listing(id, form, q)
          /\ last' = [op |-> "add", query |-> "", food_id |-> id, quantity |-> q,
                      affected |-> IF Raises THEN 0 ELSE 1, raised |-> Raises]
    /\ banner' = SuccessBanner(AddedBanner)
    /\ shown' = << >>
    /\ hist' = Relation(last')
    /\ UNCHANGED <<schemaOk, claims, providers, receivers>>

UpdateFoodListing(id, q) ==
    /\ openConns < MaxOpen
    /\ update_food_listing_quantity(id, q)
    /\ last' = [op |-> "update", query |-> "", food_id |-> id, quantity |-> q,
                affected |-> IF Raises THEN 0 ELSE RowsMatching(food_listings, id),
                raised |-> Raises]
    /\ banner' = SuccessBanner(UpdatedBanner)
    /\ shown' = << >>
    /\ hist' = Relation(last')
    /\ UNCHANGED <<schemaOk, claims, providers, receivers>>

DeleteFoodListing(id) ==
    /\ openConns < MaxOpen
    /\ delete_food_listing(id)
    /\ last' = [op |-> "delete", query |-> "", food_id |-> id, quantity |-> 0,
                affected |-> IF Raises THEN 0 ELSE RowsMatching(food_listings, id),
                raised |-> Raises]
    /\ banner' = SuccessBanner(DeletedBanner)
    /\ shown' = << >>
    /\ hist' = Relation(last')
    /\ UNCHANGED <<schemaOk, claims, providers, receivers>>

----------------------------------------------------------------------------
(* Spec: the page over a file with no tables, or over a file whose         *)
(* read-only tables are the seed tables and whose listings are any table   *)
(* in which every claim finds its listing.                                 *)

SeedClaims == { { c \in ClaimPool : c.claim_id <= n } : n \in 0..Cardinality(ClaimPool) }

RowChoices(id) ==
    { {} } \cup { InsertRow({}, id, form, q) : form \in ListingForms, q \in Quantities }

ListingTables ==
    { UNION { f[id] : id \in FoodIds }
      : f \in { g \in [FoodIds -> UNION { RowChoices(id) : id \in FoodIds }] :
                  \A id \in FoodIds : g[id] \in RowChoices(id) } }

(* Every claims.food_id resolves to a row of food_listings *)
ReferentialIntegrity(cl, fl) ==
    \A c \in cl : \E r \in fl : r.food_id = c.food_id

Init ==
    /\ schemaOk \in BOOLEAN
    /\ claims \in (IF schemaOk THEN SeedClaims ELSE { {} })
    /\ food_listings \in (IF schemaOk
                          THEN { t \in ListingTables : ReferentialIntegrity(claims, t) }
                          ELSE { {} })
    /\ providers = (IF schemaOk THEN ProvidersSeed ELSE {})
    /\ receivers = (IF schemaOk THEN ReceiversSeed ELSE {})
    /\ openConns = 0
    /\ last = NoInteraction
    /\ banner = "none"
    /\ shown = << >>
    /\ hist = "fresh"

Next ==
    \/ \E label \in QueryLabels : ViewAnalytics(label)
    \/ \E form \in ListingForms, q \in Quantities : AddFoodListing(form, q)
    \/ \E id \in FoodIds, q \in Quantities : UpdateFoodListing(id, q)
    \/ \E id \in FoodIds : DeleteFoodListing(id)

Spec == Init /\ [][Next]_vars

----------------------------------------------------------------------------
(* SpecPct: the percentage query over every claims table of at most        *)
(* MaxPctClaims claims.                                                    *)

ClaimTables ==
    UNION { { { [claim_id |-> i, food_id |-> 1, receiver_id |-> 1, status |-> f[i]]
                : i \in 1..n } : f \in [1..n -> Statuses] } : n \in 0..MaxPctClaims }

InitPct ==
    /\ schemaOk = TRUE
    /\ food_listings = {}
    /\ claims \in ClaimTables
    /\ providers = {}
    /\ receivers = {}
    /\ openConns = 0
    /\ last = NoInteraction
    /\ banner = "none"
    /\ shown = << >>
    /\ hist = "fresh"

NextPct == ViewAnalytics(QPercentage)

SpecPct == InitPct /\ [][NextPct]_vars

----------------------------------------------------------------------------
(* SpecCity: the per-city query over every pair of a providers and a       *)
(* receivers table of at most MaxCityRows rows each.                       *)

ProviderUniverse ==
    [provider_id : 1..MaxCityId, name : {"Fresh Foods", "Food Bank"},
     provider_type : {"Restaurant"}, city : {"Downtown", "Uptown"},
     contact : {"555-0001"}]

ReceiverUniverse ==
    [receiver_id : 1..MaxCityId, name : {"Shelter"}, city : {"Downtown", "Midtown"}]

AtMost(U, k) == { S \in SUBSET U : Cardinality(S) <= k }

InitCity ==
    /\ schemaOk = TRUE
    /\ food_listings = {}
    /\ claims = {}
    /\ providers \in AtMost(ProviderUniverse, MaxCityRows)
    /\ receivers \in AtMost(ReceiverUniverse, MaxCityRows)
    /\ openConns = 0
    /\ last = NoInteraction
    /\ banner = "none"
    /\ shown = << >>
    /\ hist = "fresh"

NextCity == ViewAnalytics(QPerCity)

SpecCity == InitCity /\ [][NextCity]_vars

----------------------------------------------------------------------------
(* Properties *)

(* The page shows the dataframe of catalog entry label *)
Viewed(label) == last.op = "view" /\ last.query = label /\ ~last.raised

ListingIds(fl) == { r.food_id : r \in fl }

(* The value of "Total quantity of food available" over the table fl *)
TotalReturned(fl) ==
    (CHOOSE df \in TotalQuantityAvailable(fl) : TRUE)[1].total_available_food

(* C1: an add of quantity q that succeeds makes "Total quantity of food    *)
(* available" return the total it returned before plus q, also when the    *)
(* table was empty before: both totals are numbers.                        *)
C1_AddThenTotalIncreasesByQuantity ==
    [][ (last'.op = "add" /\ ~last'.raised) =>
            /\ ~TotalReturned(food_listings).null
            /\ ~TotalReturned(food_listings').null
            /\ TotalReturned(food_listings').val
                   = TotalReturned(food_listings).val + last'.quantity ]_vars

(* What does hold of C1's round trip: from a table that has a row *)
AddThenTotalFromNonEmpty ==
    [][ (last'.op = "add" /\ ~last'.raised /\ food_listings # {}) =>
            /\ ~TotalReturned(food_listings).null
            /\ ~TotalReturned(food_listings').null
            /\ TotalReturned(food_listings').val
                   = TotalReturned(food_listings).val + last'.quantity ]_vars

(* C2: when the table exists and no row has food_id X, an update or a      *)
(* delete of X raises nothing and leaves food_listings as it was.          *)
C2_AbsentIdIsSilentNoOp ==
    [][ ( /\ schemaOk
          /\ last'.op \in {"update", "delete"}
          /\ last'.food_id \notin ListingIds(food_listings) ) =>
            /\ ~last'.raised
            /\ last'.affected = 0
            /\ food_listings' = food_listings
            /\ last'.food_id \notin ListingIds(food_listings') ]_vars

(* An update of an id that the interaction before it deleted has run, and  *)
(* has raised nothing.                                                     *)
C2_Witness ==
    /\ hist = "after_delete"
    /\ last.op = "update" /\ ~last.raised /\ last.affected = 0
    /\ last.food_id \notin ListingIds(food_listings)

(* C3: an update of an id just deleted does not recreate the row and is    *)
(* told apart from a successful update; a success banner of the Update or  *)
(* Delete mode is shown only when a row was affected.                      *)
C3_SuccessBannerOnlyWhenRowAffected ==
    /\ (hist = "after_delete" /\ ~last.raised) =>
            /\ last.food_id \notin ListingIds(food_listings)
            /\ banner # UpdatedBanner
    /\ banner \in {UpdatedBanner, DeletedBanner} => last.affected >= 1

(* C4: an update of (X, q) right after the same update, both returning:    *)
(* the table stays as the first left it, X's quantity is q, and the page   *)
(* gives the same banner.                                                  *)
C4_UpdateIdempotent ==
    [][ ( /\ last.op = "update" /\ ~last.raised
          /\ last'.op = "update" /\ ~last'.raised
          /\ Request(last') = Request(last) ) =>
            /\ food_listings' = food_listings
            /\ \A r \in food_listings' :
                   r.food_id = last'.food_id => r.quantity = last'.quantity
            /\ last'.affected = last.affected
            /\ banner' = banner
            /\ banner' = UpdatedBanner ]_vars

(* The second of two equal updates of a listing that exists has run *)
C4_Witness ==
    /\ hist = "repeat"
    /\ last.op = "update" /\ ~last.raised /\ last.affected = 1
    /\ banner = UpdatedBanner
    /\ \E r \in food_listings :
           r.food_id = last.food_id /\ r.quantity = last.quantity

RECURSIVE SumPercentages(_, _)
SumPercentages(df, n) ==
    IF n = 0 THEN 0 ELSE df[n].percentage + SumPercentages(df, n - 1)

Abs(x) == IF x < 0 THEN -x ELSE x

(* Each percentage of df lies in [0, 100] and they sum to 100 within 0.1 *)
PercentagesSumToHundred(df) ==
    /\ \A i \in 1..Len(df) : df[i].percentage >= 0 /\ df[i].percentage <= 10000
    /\ Abs(SumPercentages(df, Len(df)) - 10000) <= 10

(* Each row of df is a status of the table with its share of the claims    *)
(* rounded to the nearest hundredth                                        *)
PercentagesAreRoundedShares(df) ==
    /\ { df[i].status : i \in 1..Len(df) } = { c.status : c \in claims }
    /\ Len(df) = Cardinality({ c.status : c \in claims })
    /\ \A i \in 1..Len(df) :
           LET n == Cardinality({ c \in claims : c.status = df[i].status })
           IN  2 * Abs(df[i].percentage * Cardinality(claims) - n * 10000)
                   <= Cardinality(claims)

(* C5 as claimed: for every claims table, the empty one included, the      *)
(* percentages lie in [0, 100] and sum to 100 within 0.1.                  *)
C5_Original ==
    Viewed(QPercentage) => PercentagesSumToHundred(shown)

(* C5 as amended: for every claims table that is not empty (statuses among *)
(* Completed, Pending, Cancelled) the percentages are the rounded shares,  *)
(* lie in [0, 100] and sum to 100 within 0.1; for the empty table the      *)
(* query returns no row.                                                   *)
C5_PercentagesOfNonEmptyTable ==
    Viewed(QPercentage) =>
        /\ PercentagesAreRoundedShares(shown)
        /\ IF claims = {} THEN shown = << >> ELSE PercentagesSumToHundred(shown)

(* The three statuses are present and rounding has moved the sum off 100 *)
C5_Witness ==
    /\ Viewed(QPercentage)
    /\ Len(shown) = 3
    /\ SumPercentages(shown, 3) # 10000

(* The "most/highest" entries of the catalog, and those of them whose      *)
(* SELECT ends in LIMIT 1                                                  *)
MostLabels == { QProviderType, QReceivers, QCity, QFoodTypes, QProvider, QMealType }
LimitOneLabels == { QProviderType, QCity, QProvider, QMealType }

KeyColumn(label) ==
    CASE label = QProviderType -> "provider_type"
      [] label = QReceivers    -> "name"
      [] label = QCity         -> "location"
      [] label = QFoodTypes    -> "food_type"
      [] label = QProvider     -> "name"
      [] label = QMealType     -> "meal_type"

ValueColumn(label) ==
    CASE label = QProviderType -> "total_quantity"
      [] label = QReceivers    -> "total_claims"
      [] label = QCity         -> "total_listings"
      [] label = QFoodTypes    -> "count"
      [] label = QProvider     -> "completed_claims"
      [] label = QMealType     -> "total_claims"

(* The aggregate of group k of entry label in the current tables, and the  *)
(* rows that make the group                                                *)
GroupRows(label, k) ==
    CASE label = QProviderType -> { r \in food_listings : r.provider_type = k }
      [] label = QReceivers    ->
            { x \in claims \X receivers :
                x[1].receiver_id = x[2].receiver_id /\ x[2].name = k }
      [] label = QCity         -> { r \in food_listings : r.location = k }
      [] label = QFoodTypes    -> { r \in food_listings : r.food_type = k }
      [] label = QProvider     ->
            { x \in claims \X food_listings \X providers :
                /\ x[1].status = "Completed"
                /\ x[1].food_id = x[2].food_id
                /\ x[2].provider_id = x[3].provider_id
                /\ x[3].name = k }
      [] label = QMealType     ->
            { x \in claims \X food_listings :
                x[1].food_id = x[2].food_id /\ x[2].meal_type = k }

Aggregate(label, k) ==
    IF label = QProviderType
    THEN SumQuantity(GroupRows(label, k))
    ELSE Cardinality(GroupRows(label, k))

GroupKeys(label) ==
    LET candidates ==
            CASE label = QProviderType -> { r.provider_type : r \in food_listings }
              [] label = QReceivers    -> { r.name : r \in receivers }
              [] label = QCity         -> { r.location : r \in food_listings }
              [] label = QFoodTypes    -> { r.food_type : r \in food_listings }
              [] label = QProvider     -> { p.name : p \in providers }
              [] label = QMealType     -> { r.meal_type : r \in food_listings }
    IN  { k \in candidates : GroupRows(label, k) # {} }

(* Row i of df is a group of entry label with its aggregate *)
IsGroupRow(label, row) ==
    /\ row[KeyColumn(label)] \in GroupKeys(label)
    /\ row[ValueColumn(label)] = Aggregate(label, row[KeyColumn(label)])

(* No group of entry label has a larger aggregate than row *)
IsMaximal(label, row) ==
    \A k \in GroupKeys(label) : Aggregate(label, k) <= row[ValueColumn(label)]

(* C6 as claimed: each of the six "most/highest" entries returns exactly   *)
(* one row in every state of the tables, the group of maximal aggregate.   *)
C6_Original ==
    \A label \in MostLabels :
        Viewed(label) =>
            /\ Len(shown) = 1
            /\ IsGroupRow(label, shown[1])
            /\ IsMaximal(label, shown[1])

(* C6 as amended: the four entries that end in LIMIT 1 return one row, a   *)
(* group of maximal aggregate, when there is a group and no row when there *)
(* is none; "Receivers with most food claims" and "Most commonly available *)
(* food types" return one row per group, aggregates descending, so their   *)
(* first row is a group of maximal aggregate.                              *)
C6_MostQueries ==
    \A label \in MostLabels :
        Viewed(label) =>
            /\ \A i \in 1..Len(shown) : IsGroupRow(label, shown[i])
            /\ Len(shown) > 0 => IsMaximal(label, shown[1])
            /\ IF label \in LimitOneLabels
               THEN Len(shown) = (IF GroupKeys(label) = {} THEN 0 ELSE 1)
               ELSE /\ Len(shown) = Cardinality(GroupKeys(label))
                    /\ { shown[i][KeyColumn(label)] : i \in 1..Len(shown) }
                           = GroupKeys(label)
                    /\ \A i \in 1..(Len(shown) - 1) :
                           shown[i][ValueColumn(label)] >= shown[i + 1][ValueColumn(label)]

(* A LIMIT 1 entry has returned the larger of two groups that differ *)
C6_Witness ==
    /\ Viewed(QProviderType)
    /\ Len(shown) = 1
    /\ Cardinality(GroupKeys(QProviderType)) = 2
    /\ \E k \in GroupKeys(QProviderType) :
           Aggregate(QProviderType, k) < shown[1].total_quantity

(* C7: "Providers & Receivers per City" has one row per city of a provider *)
(* or a receiver, with the numbers of distinct provider_id and receiver_id *)
(* of that city (0 when the city has none of the kind).                    *)
C7_PerCityCounts ==
    Viewed(QPerCity) =>
        LET cities == { p.city : p \in providers } \cup { r.city : r \in receivers }
        IN  /\ Len(shown) = Cardinality(cities)
            /\ { shown[i].city : i \in 1..Len(shown) } = cities
            /\ \A i \in 1..Len(shown) :
                   /\ shown[i].total_providers =
                          Cardinality({ p.provider_id :
                                          p \in { x \in providers : x.city = shown[i].city } })
                   /\ shown[i].total_receivers =
                          Cardinality({ r.receiver_id :
                                          r \in { x \in receivers : x.city = shown[i].city } })

(* The result has a city with receivers only, a city with providers only,  *)
(* and the table has two rows of one provider_id in one city               *)
C7_Witness ==
    /\ Viewed(QPerCity)
    /\ \E i \in 1..Len(shown) : shown[i].total_providers = 0 /\ shown[i].total_receivers > 0
    /\ \E i \in 1..Len(shown) : shown[i].total_receivers = 0 /\ shown[i].total_providers = 1
    /\ \E p, q \in providers :
           p # q /\ p.provider_id = q.provider_id /\ p.city = q.city

(* C8: every call of run_query and execute_sql closes the connection it    *)
(* opened, on the raising path too: no connection is open after any        *)
(* sequence of interactions.                                               *)
C8_NoConnectionLeftOpen == openConns = 0

(* C9: no interaction changes claims, providers or receivers; a view       *)
(* changes no table; an update of (X, q) changes the quantity of row X and *)
(* nothing else; a delete of X removes row X and nothing else; an add that *)
(* returns adds one row and changes none.                                  *)
C9_Frame ==
    [][ /\ claims' = claims /\ providers' = providers /\ receivers' = receivers
        /\ last'.op = "view" => food_listings' = food_listings
        /\ last'.op = "update" =>
               /\ ListingIds(food_listings') = ListingIds(food_listings)
               /\ Cardinality(food_listings') = Cardinality(food_listings)
               /\ \A r \in food_listings :
                      IF r.food_id = last'.food_id
                      THEN \E w \in food_listings' :
                               w = [r EXCEPT !.quantity = w.quantity]
                      ELSE r \in food_listings'
        /\ last'.op = "delete" =>
               /\ food_listings' \subseteq food_listings
               /\ \A r \in food_listings \ food_listings' : r.food_id = last'.food_id
        /\ (last'.op = "add" /\ ~last'.raised) =>
               /\ food_listings \subseteq food_listings'
               /\ Cardinality(food_listings' \ food_listings) = 1 ]_vars

(* An update has changed the quantity of one of two listings, claims being *)
(* on file                                                                 *)
C9_Witness ==
    /\ last.op = "update" /\ ~last.raised /\ last.affected = 1
    /\ Cardinality(food_listings) = 2
    /\ \E r, w \in food_listings :
           r.food_id = last.food_id /\ w.food_id # last.food_id
             /\ w.quantity # r.quantity
    /\ claims # {}

(* C10: from a state where every claim finds its listing, a delete of a    *)
(* listing that a claim refers to returns and leaves that claim without a  *)
(* listing: "Number of claims made for each food item" still counts it,    *)
(* the joins on food_id drop it.                                           *)
C10_DeleteLeavesDanglingClaim ==
    [][ ( /\ schemaOk
          /\ ReferentialIntegrity(claims, food_listings)
          /\ last'.op = "delete"
          /\ \E c \in claims : c.food_id = last'.food_id ) =>
            /\ ~last'.raised
            /\ banner' = DeletedBanner
            /\ last'.food_id \notin ListingIds(food_listings')
            /\ ~ReferentialIntegrity(claims', food_listings')
            /\ \A df \in ClaimsPerFoodItem(claims') :
                   \E i \in 1..Len(df) :
                       /\ df[i].food_id = last'.food_id
                       /\ df[i].total_claims =
                              Cardinality({ c \in claims : c.food_id = last'.food_id })
            /\ \A x \in ClaimsJoinListings(claims', food_listings') :
                   x[1].food_id # last'.food_id ]_vars

(* A delete has removed a listing and a claim refers to its food_id *)
C10_Witness ==
    /\ last.op = "delete" /\ ~last.raised /\ last.affected = 1
    /\ \E c \in claims : c.food_id = last.food_id
    /\ ~ReferentialIntegrity(claims, food_listings)

============================================================================
